---- MODULE Spec2Model ----
(***************************************************************************)
(* Turn orchestration core of the voice Game Master                        *)
(* (src/backend/src/agent.py): the PlayerMemory record, the VoiceGM        *)
(* session object and its run handler with the six scene methods.          *)
(*                                                                         *)
(* Python strings are TLA+ strings; slicing is SubSeq, f-string            *)
(* interpolation is \o.  The spec's names for the steps are                *)
(*   OpeningScene = scene_1, AllyIntroduction = scene_2,                   *)
(*   ForestDiscovery = scene_3, WolfEncounter = scene_4,                   *)
(*   GenericReaction = generic_scene, FinalScene = final_scene,            *)
(* and advanceTurn = VoiceGM.run, turnIndex = self.turn.                   *)
(***************************************************************************)
EXTENDS Integers, Sequences, FiniteSets, TLC

VARIABLES gm, ctx, step, outcome, scene, log, calls, peer, tasks

vars == <<gm, ctx, step, outcome, scene, log, calls, peer, tasks>>

(* ------------------------------ bounds --------------------------------- *)

\* Number of calls of run explored in one session.
MaxCalls == 11

\* Number of non-empty utterances a session receives.
MaxActions == 3

\* Number of calls of run, over both sessions, explored when two sessions
\* are advanced side by side.
MaxPairCalls == 5

\* Number of invocations of run created as tasks of the event loop.
MaxTasks == 5

\* Largest max_turns explored by the specification that varies it.
MaxConfigured == 6

(* ------------------------- program constants --------------------------- *)

\* self.max_turns = 10
DefaultMaxTurns == 10

\* player_input[:80]
ActionExcerptLen == 80

\* PlayerMemory.health default
InitialHealth == 100

\* self.memory.health -= 10
WolfDamage == 10

(* ------------------------------ inputs --------------------------------- *)

ShortUtterance == "I run"

\* 81 characters: one more than the excerpt kept in past_actions.
LongUtterance ==
  "I draw my sword and walk slowly towards the dark trees while Fenrix watches me go"

Utterances == {"", ShortUtterance, LongUtterance}

Message(content) == [content |-> content]

\* The values of ctx.messages that carry utterance u as the player's latest
\* input: the utterance as the only or as the last message of the history,
\* and, for the empty utterance, no message at all.
ContextsFor(u) ==
  {<<Message(u)>>, <<Message(LongUtterance), Message(u)>>}
    \cup (IF u = "" THEN {<<>>} ELSE {})

(* ------------------------------ helpers -------------------------------- *)

Min(a, b) == IF a < b THEN a ELSE b

\* Python s[:n] for n >= 0.
SlicePrefix(s, n) == SubSeq(s, 1, Min(n, Len(s)))

\* Python s.endswith(p), used to state the claims about narrations.
EndsWith(s, p) ==
  /\ Len(s) >= Len(p)
  /\ SubSeq(s, Len(s) - Len(p) + 1, Len(s)) = p

Digits == "0123456789"

\* str(n) for n >= 0, as the f-string formats self.turn.
RECURSIVE IntToStr(_)
IntToStr(n) ==
  IF n < 10
    THEN SubSeq(Digits, n + 1, n + 1)
    ELSE IntToStr(n \div 10) \o SubSeq(Digits, (n % 10) + 1, (n % 10) + 1)

(* --------------------------- PlayerMemory ------------------------------ *)

PlayerMemory(name) ==
  [ name           |-> name,
    health         |-> InitialHealth,
    inventory      |-> <<>>,
    allies         |-> <<>>,
    visited_places |-> <<>>,
    past_actions   |-> <<>> ]

\* Variant: the list fields are class-level lists, one object for every
\* instance.
SharedFields_class_level ==
  {"inventory", "allies", "visited_places", "past_actions"}

\* The list fields of PlayerMemory whose list object two instances have in
\* common.  field(default_factory=list) builds a list per instance: none.
SharedFields == {}

\* What a second instance's memory reads after this instance's memory
\* became `mine`: the lists they have in common show the new contents.
seen_by_other(other, mine) ==
  [f \in DOMAIN other |-> IF f \in SharedFields THEN mine[f] ELSE other[f]]

(* ------------------------------ VoiceGM -------------------------------- *)

\* The closing prompt the agent's instructions ask every narration to end
\* with: Always end with: "What do you do?"
ClosingPrompt == "What do you do?"

\* VoiceGM.__init__ with the max_turns it stores.
VoiceGM(max_turns) ==
  [ memory    |-> PlayerMemory("Arin"),
    turn      |-> 0,
    max_turns |-> max_turns ]

(* Each scene method returns the narration and mutates self.memory:        *)
(* modelled as the pair [memory, ret].                                     *)

Scene1Text ==
  "You are in a quiet tavern near a dark forest. The fire is low. "
    \o "A small gnome says someone stole a map. What do you do?"

Scene2Text ==
  "A hooded ranger named Fenrix stands up. "
    \o "He offers to help you find the map. What do you do?"

Scene3Text ==
  "You walk into the forest. You find a small piece of paper with a star mark on it. "
    \o "It might be part of the map. What do you do?"

Scene4Text ==
  "You hear wolves. One jumps out and scares you. You lose a little health. "
    \o "Fenrix draws his bow to protect you. What do you do?"

FinalText ==
  "You reach a stone door with a glowing star mark. Fenrix nods at you. "
    \o "The door opens slowly. A new quest begins. What do you do?"

GenericPrefix == "The world reacts to your action: "

GenericSuffix == ". You see the path ahead glowing with stars. What do you do?"

scene_1(memory) ==
  [ memory |-> [memory EXCEPT !.visited_places = Append(@, "Tavern")],
    ret    |-> Scene1Text ]

\* Variant: the ally is put on the wrong list.
scene_2_wrong_list(memory, action) ==
  [ memory |-> [memory EXCEPT !.inventory = Append(@, "Fenrix")],
    ret    |-> Scene2Text ]

scene_2(memory, action) ==
  [ memory |-> [memory EXCEPT !.allies = Append(@, "Fenrix")],
    ret    |-> Scene2Text ]

\* Variant: visited_places is assigned instead of appended to.
scene_3_overwrite(memory, action) ==
  [ memory |-> [memory EXCEPT !.visited_places = <<"Forest">>,
                              !.inventory = Append(@, "Map Scrap")],
    ret    |-> Scene3Text ]

scene_3(memory, action) ==
  [ memory |-> [memory EXCEPT !.visited_places = Append(@, "Forest"),
                              !.inventory = Append(@, "Map Scrap")],
    ret    |-> Scene3Text ]

\* Variant: the wolf heals instead of hurting.
scene_4_heals(memory, action) ==
  [ memory |-> [memory EXCEPT !.health = @ + WolfDamage],
    ret    |-> Scene4Text ]

\* Variant: a player who says "I run" escapes unharmed.
scene_4_flee(memory, action) ==
  [ memory |-> IF action = "I run" THEN memory
               ELSE [memory EXCEPT !.health = @ - WolfDamage],
    ret    |-> Scene4Text ]

scene_4(memory, action) ==
  [ memory |-> [memory EXCEPT !.health = @ - WolfDamage],
    ret    |-> Scene4Text ]

\* Variant: the narration interpolates the logged excerpt, not the utterance.
generic_scene_excerpt(memory, action) ==
  [ memory |-> memory,
    ret    |-> GenericPrefix \o SlicePrefix(action, ActionExcerptLen) \o GenericSuffix ]

\* Variant: the action is interpolated after the closing prompt.
generic_scene_action_last(memory, action) ==
  [ memory |-> memory,
    ret    |-> "The world reacts. You see the path ahead glowing with stars. "
                 \o "What do you do? " \o action ]

generic_scene(memory, action) ==
  [ memory |-> memory,
    ret    |-> GenericPrefix \o action \o GenericSuffix ]

\* Variant: the terminal scene records the stone door as a visited place.
final_scene_visits(memory) ==
  [ memory |-> [memory EXCEPT !.visited_places = Append(@, "Stone Door")],
    ret    |-> FinalText ]

\* Variant: the terminal narration drops the closing prompt.
final_scene_no_prompt(memory) ==
  [ memory |-> memory,
    ret    |-> "You reach a stone door with a glowing star mark. Fenrix nods at you. "
                 \o "The door opens slowly. A new quest begins." ]

final_scene(memory) ==
  [ memory |-> memory,
    ret    |-> FinalText ]

(* ------------------------------- run ----------------------------------- *)

\* player_input = ctx.messages[-1].content if ctx.messages else ""
player_input_of(messages) ==
  IF messages # <<>> THEN messages[Len(messages)].content ELSE ""

\* Variant: the counter stops once the session has reached max_turns.
next_turn_capped(self) ==
  IF self.turn >= self.max_turns THEN self.turn ELSE self.turn + 1

\* self.turn += 1
next_turn(self) == self.turn + 1

\* Variant: the utterance is logged whole.
log_action_untruncated(memory, player_input) ==
  IF player_input # ""
    THEN [memory EXCEPT !.past_actions = Append(@, player_input)]
    ELSE memory

\* if player_input: self.memory.past_actions.append(player_input[:80])
log_action(memory, player_input) ==
  IF player_input # ""
    THEN [memory EXCEPT
            !.past_actions = Append(@, SlicePrefix(player_input, ActionExcerptLen))]
    ELSE memory

\* Variant: the terminal test is strict (turn > max_turns).
select_scene_gt(turn, max_turns) ==
  IF turn = 1 THEN "scene_1"
  ELSE IF turn = 2 THEN "scene_2"
  ELSE IF turn = 3 THEN "scene_3"
  ELSE IF turn = 4 THEN "scene_4"
  ELSE IF turn > max_turns THEN "final_scene"
  ELSE "generic_scene"

\* Variant: the terminal test is an equality (turn == max_turns).
select_scene_eq(turn, max_turns) ==
  IF turn = 1 THEN "scene_1"
  ELSE IF turn = 2 THEN "scene_2"
  ELSE IF turn = 3 THEN "scene_3"
  ELSE IF turn = 4 THEN "scene_4"
  ELSE IF turn = max_turns THEN "final_scene"
  ELSE "generic_scene"

\* Variant: the chain ends in elif turn < max_turns instead of else, and
\* the terminal test is strict, so turn == max_turns takes no branch.
select_scene_gap(turn, max_turns) ==
  IF turn = 1 THEN "scene_1"
  ELSE IF turn = 2 THEN "scene_2"
  ELSE IF turn = 3 THEN "scene_3"
  ELSE IF turn = 4 THEN "scene_4"
  ELSE IF turn > max_turns THEN "final_scene"
  ELSE IF turn < max_turns THEN "generic_scene"
  ELSE "unbound"

\* The if/elif chain of run: the method the branch taken calls.
select_scene(turn, max_turns) ==
  IF turn = 1 THEN "scene_1"
  ELSE IF turn = 2 THEN "scene_2"
  ELSE IF turn = 3 THEN "scene_3"
  ELSE IF turn = 4 THEN "scene_4"
  ELSE IF turn >= max_turns THEN "final_scene"
  ELSE "generic_scene"

\* The body of the branch taken.  No branch taken leaves the local `scene`
\* unbound, and the read of it in the logging line raises.
call_scene(name, memory, player_input) ==
  CASE name = "scene_1"       -> scene_1(memory)
    [] name = "scene_2"       -> scene_2(memory, player_input)
    [] name = "scene_3"       -> scene_3(memory, player_input)
    [] name = "scene_4"       -> scene_4(memory, player_input)
    [] name = "final_scene"   -> final_scene(memory)
    [] name = "generic_scene" -> generic_scene(memory, player_input)
    [] OTHER                  -> [memory |-> memory, ret |-> "<unbound>"]

SceneNames ==
  {"scene_1", "scene_2", "scene_3", "scene_4", "final_scene", "generic_scene"}

\* Variant: the record carries the turn before the increment.
log_record_stale_turn(turn, text) ==
  [ levelname |-> "INFO",
    message   |-> "GM Turn " \o IntToStr(turn - 1) \o ": " \o text ]

\* logger.info(f"GM Turn {self.turn}: {scene}")
log_record(turn, text) ==
  [ levelname |-> "INFO",
    message   |-> "GM Turn " \o IntToStr(turn) \o ": " \o text ]

\* The first statements of run: the input is read, self.turn incremented
\* and the action logged.  The session after them and the local
\* player_input.
run_enter(self, c) ==
  LET player_input == player_input_of(c)
  IN  [ self         |-> [self EXCEPT
                            !.turn = next_turn(self),
                            !.memory = log_action(self.memory, player_input)],
        player_input |-> player_input ]

\* The rest of run: the if/elif chain on self.turn, the scene, the logging
\* line and the return.  The session after them, the branch taken, the
\* value returned (or the exception), and the records logged.
run_dispatch(self, player_input) ==
  LET name  == select_scene(self.turn, self.max_turns)
      res   == call_scene(name, self.memory, player_input)
      after == [self EXCEPT !.memory = res.memory]
  IN  IF name \in SceneNames
        THEN [ self    |-> after,
               step    |-> name,
               outcome |-> "return",
               ret     |-> res.ret,
               records |-> <<log_record(self.turn, res.ret)>> ]
        ELSE [ self    |-> after,
               step    |-> name,
               outcome |-> "raise",
               ret     |-> "UnboundLocalError",
               records |-> <<>> ]

\* VoiceGM.run as a function of the session object and the context, when
\* nothing else runs between its statements.
run(self, c) ==
  LET entered == run_enter(self, c)
  IN  run_dispatch(entered.self, entered.player_input)

\* Variant: the body awaits (asyncio.sleep(0)) between the bookkeeping and
\* the if/elif chain.
suspends_after_enter_sleep == TRUE

\* Whether the coroutine run gives control back to the event loop between
\* its first statements and the if/elif chain: its body holds no await.
suspends_after_enter == FALSE

(* ------------------------- the state machine --------------------------- *)

\* gm      the VoiceGM session object
\* ctx     the messages of the RunContext of the last call
\* step    the scene method the last call selected ("none" before any call)
\* outcome "return" or "raise" for the last call ("none" before any call)
\* scene   the value the last call returned ("" before any call)
\* log     the records run has emitted on the logger, oldest first
\* calls   the utterance delivered to every call so far, oldest first
\* peer    a second VoiceGM session of the same process, with its own gm,
\*         step, outcome, scene and calls; it writes to the same logger
\* tasks   the invocations of run on gm created as tasks of the event loop,
\*         in creation order: the utterance, the position ("created",
\*         "entered" when suspended after the first statements, "done"),
\*         the local player_input, and for a finished one the turn its
\*         logging line read and the value it returned

InitWith(max_turns) ==
  /\ gm = VoiceGM(max_turns)
  /\ ctx = <<>>
  /\ step = "none"
  /\ outcome = "none"
  /\ scene = ""
  /\ log = <<>>
  /\ calls = <<>>
  /\ peer = [ gm      |-> VoiceGM(max_turns),
              step    |-> "none",
              outcome |-> "none",
              scene   |-> "",
              calls   |-> <<>> ]
  /\ tasks = <<>>

Init == InitWith(DefaultMaxTurns)

InitConfigured == \E m \in 1..MaxConfigured : InitWith(m)

\* The effect of one call of run on session gm, delivering utterance u in
\* context c.
Call(u, c) ==
  \E r \in {run(gm, c)} :
      /\ gm' = r.self
      /\ ctx' = c
      /\ step' = r.step
      /\ outcome' = r.outcome
      /\ scene' = r.ret
      /\ log' = log \o r.records
      /\ calls' = Append(calls, u)
      /\ peer' = [peer EXCEPT !.gm.memory = seen_by_other(@, r.self.memory)]
      /\ UNCHANGED tasks

\* The effect of one call of run on the second session.
CallPeer(u, c) ==
  \E r \in {run(peer.gm, c)} :
      /\ peer' = [ gm      |-> r.self,
                   step    |-> r.step,
                   outcome |-> r.outcome,
                   scene   |-> r.ret,
                   calls   |-> Append(peer.calls, u) ]
      /\ log' = log \o r.records
      /\ gm' = [gm EXCEPT !.memory = seen_by_other(@, r.self.memory)]
      /\ UNCHANGED <<ctx, step, outcome, scene, calls, tasks>>

\* One call of run, delivering utterance u in context c.
Run(u, c) ==
  /\ gm.turn < MaxCalls
  /\ u # "" => Len(gm.memory.past_actions) < MaxActions
  /\ Call(u, c)

Next == \E u \in Utterances : \E c \in ContextsFor(u) : Run(u, c)

Spec == Init /\ [][Next]_vars

SpecConfigured == InitConfigured /\ [][Next]_vars

\* Two sessions of one process advanced in any interleaving of their calls.
PairContext(u) == IF u = "" THEN <<>> ELSE <<Message(u)>>

RunFirst(u) ==
  /\ Len(calls) + Len(peer.calls) < MaxPairCalls
  /\ Call(u, PairContext(u))

RunSecond(u) ==
  /\ Len(calls) + Len(peer.calls) < MaxPairCalls
  /\ CallPeer(u, PairContext(u))

NextPair == \E u \in Utterances : RunFirst(u) \/ RunSecond(u)

SpecPair == Init /\ [][NextPair]_vars

\* Invocations of run on one session scheduled concurrently on the event
\* loop: at most two unfinished at a time.  The loop runs one task at a
\* time, from where it stands to its next suspension point or its end.
Unfinished == {i \in 1..Len(tasks) : tasks[i].pc # "done"}

CreateTask(u) ==
  /\ Len(tasks) < MaxTasks
  /\ Cardinality(Unfinished) < 2
  /\ tasks' = Append(tasks,
                     [ u |-> u, pc |-> "created", player_input |-> "",
                       turn |-> 0, ret |-> "" ])
  /\ UNCHANGED <<gm, ctx, step, outcome, scene, log, calls, peer>>

RunTask(i) ==
  /\ tasks[i].pc # "done"
  /\ LET t       == tasks[i]
         entered == IF t.pc = "created"
                      THEN run_enter(gm, PairContext(t.u))
                      ELSE [self |-> gm, player_input |-> t.player_input]
         parks   == t.pc = "created" /\ suspends_after_enter
         r       == run_dispatch(entered.self, entered.player_input)
     IN  IF parks
           THEN /\ gm' = entered.self
                /\ tasks' = [tasks EXCEPT ![i].pc = "entered",
                                          ![i].player_input = entered.player_input]
                /\ UNCHANGED <<ctx, step, outcome, scene, log, calls, peer>>
           ELSE /\ gm' = r.self
                /\ ctx' = PairContext(t.u)
                /\ step' = r.step
                /\ outcome' = r.outcome
                /\ scene' = r.ret
                /\ log' = log \o r.records
                /\ calls' = Append(calls, t.u)
                /\ tasks' = [tasks EXCEPT ![i].pc = "done",
                                          ![i].player_input = entered.player_input,
                                          ![i].turn = r.self.turn,
                                          ![i].ret = r.ret]
                /\ UNCHANGED peer

NextLoop ==
  \/ \E u \in Utterances : CreateTask(u)
  \/ \E i \in 1..Len(tasks) : RunTask(i)

SpecLoop == Init /\ [][NextLoop]_vars

\* A session of the default or of a configured length whose caller keeps
\* delivering utterances: a call that can be made is eventually made.
InitAny == Init \/ InitConfigured

\* The caller's deliveries in that session: silence (no message) or the
\* short utterance.
Deliver ==
  \E u \in {"", ShortUtterance} :
    Run(u, IF u = "" THEN <<>> ELSE <<Message(u)>>)

SpecLive == InitAny /\ [][Deliver]_vars /\ WF_vars(Deliver)

(* ------------------------------ claims --------------------------------- *)

Called == step # "none"

Memory == gm.memory

\* The schedule of the default session, written out turn by turn.
DefaultSchedule(k) ==
  CASE k = 1            -> "scene_1"
    [] k = 2            -> "scene_2"
    [] k = 3            -> "scene_3"
    [] k = 4            -> "scene_4"
    [] k \in 5..9       -> "generic_scene"
    [] k >= 10          -> "final_scene"

\* C1: with max_turns = 10 the k-th call of run selects the step the
\* schedule fixes for k (1..4 the numbered scenes, 5..9 generic_scene, 10 and
\* later final_scene), whatever utterances the calls carried; k is the
\* post-increment turn.
C1_Schedule ==
  Called =>
    /\ gm.max_turns = 10
    /\ gm.turn = Len(calls)
    /\ step = DefaultSchedule(Len(calls))

\* The 10th call, carrying a non-empty utterance, has selected final_scene
\* after a 9th call that carried the long utterance.
C1_Witness ==
  /\ Len(calls) = 10
  /\ calls[10] = ShortUtterance
  /\ calls[9] = LongUtterance
  /\ step = "final_scene"

\* C2: for every max_turns >= 1, a call whose post-increment turn is
\* >= max_turns selects final_scene, also when that turn is 1, 2, 3 or 4, so
\* that the numbered scene and its memory mutation are not executed.
C2_FinalPrecedence ==
  (Called /\ gm.turn >= gm.max_turns) =>
    step = "final_scene"

\* C3: turn is 0 at creation and every call of run increases it by exactly
\* 1, also after final_scene has been reached; after N calls turn = N.
C3_TurnCounts ==
  /\ gm.turn = 0
  /\ [][ /\ gm'.turn = gm.turn + 1
         /\ gm'.turn = Len(calls') ]_vars

\* Two calls in a row made after final_scene was first selected.
C3_Witness ==
  /\ gm.turn = MaxCalls
  /\ gm.turn >= gm.max_turns + 1
  /\ Len(calls) = gm.turn
  /\ step = "final_scene"

\* C4: once a call has returned the final narration every later call
\* returns it too, never an error or another step; with max_turns = 10 the
\* 10th call is the first to return it.
C4_Saturation ==
  /\ [](Called => (step = "final_scene" <=> Len(calls) >= 10))
  /\ [][ step = "final_scene" =>
           /\ step' = "final_scene"
           /\ outcome' = "return"
           /\ scene' = FinalText ]_vars

\* The 11th call has returned the final narration.
C4_Witness ==
  /\ Len(calls) = 11
  /\ step = "final_scene"
  /\ outcome = "return"
  /\ scene = FinalText

\* p is a prefix of s (strings or lists).
IsPrefix(p, s) ==
  /\ Len(p) <= Len(s)
  /\ SubSeq(s, 1, Len(p)) = p

\* e is utterance u cut to its first n characters.
IsExcerpt(e, u, n) ==
  /\ Len(e) = (IF Len(u) <= n THEN Len(u) ELSE n)
  /\ IsPrefix(e, u)

\* The non-empty utterances among us, in order.
RECURSIVE NonEmpty(_)
NonEmpty(us) ==
  IF us = <<>> THEN <<>>
  ELSE IF Head(us) = "" THEN NonEmpty(Tail(us))
  ELSE <<Head(us)>> \o NonEmpty(Tail(us))

\* C5: past_actions is, in call order, the list of the non-empty
\* utterances of the calls made, each cut to its first 80 characters; an
\* empty utterance adds nothing.
C5_PastActions ==
  LET spoken == NonEmpty(calls)
  IN  /\ Len(Memory.past_actions) = Len(spoken)
      /\ \A i \in 1..Len(spoken) :
            IsExcerpt(Memory.past_actions[i], spoken[i], 80)

\* A call that selected final_scene carried the long utterance, after an
\* opening call with no utterance and a short one: the last entry is the
\* 80-character excerpt.
C5_Witness ==
  /\ step = "final_scene"
  /\ calls[1] = ""
  /\ calls[Len(calls)] = LongUtterance
  /\ Len(Memory.past_actions) = 2
  /\ Memory.past_actions[1] = ShortUtterance
  /\ Len(Memory.past_actions[2]) = 80
  /\ Memory.past_actions[2] # LongUtterance

\* C6: every call leaves the old value of visited_places, inventory,
\* allies and past_actions as a prefix of the new one, and with
\* max_turns = 10 visited_places never holds more than 2 entries, inventory
\* and allies never more than 1.
C6_AppendOnly ==
  /\ [][ /\ IsPrefix(gm.memory.visited_places, gm'.memory.visited_places)
         /\ IsPrefix(gm.memory.inventory, gm'.memory.inventory)
         /\ IsPrefix(gm.memory.allies, gm'.memory.allies)
         /\ IsPrefix(gm.memory.past_actions, gm'.memory.past_actions) ]_vars
  /\ [](/\ Len(Memory.visited_places) <= 2
        /\ Len(Memory.inventory) <= 1
        /\ Len(Memory.allies) <= 1)

\* After the 11th call every list is at its largest.
C6_Witness ==
  /\ Len(calls) = 11
  /\ Memory.visited_places = <<"Tavern", "Forest">>
  /\ Memory.inventory = <<"Map Scrap">>
  /\ Memory.allies = <<"Fenrix">>
  /\ Len(Memory.past_actions) = MaxActions

\* The fields of memory other than past_actions that a call leaves alone.
Kept(fields) == \A f \in fields : gm'.memory[f] = gm.memory[f]

\* past_actions after a call: one more entry exactly when the call's
\* utterance is non-empty.
PastActionsStep ==
  Len(gm'.memory.past_actions) =
    Len(gm.memory.past_actions) + (IF calls'[Len(calls')] = "" THEN 0 ELSE 1)

\* C7: in a default session call 1 leaves visited_places = <<"Tavern">>,
\* turn = 1 and, for an empty utterance, past_actions empty; call 2 appends
\* "Fenrix" to allies only; call 3 appends "Forest" to visited_places and
\* "Map Scrap" to inventory only; call 4 lowers health from 100 to 90 only.
\* The other fields, name included, are unchanged by the step.
C7_StepMutations ==
  [][ /\ PastActionsStep
      /\ Len(calls') = 1 =>
            /\ gm'.turn = 1
            /\ gm'.memory.visited_places = <<"Tavern">>
            /\ calls'[1] = "" => gm'.memory.past_actions = <<>>
            /\ Kept({"name", "health", "inventory", "allies"})
      /\ Len(calls') = 2 =>
            /\ gm'.memory.allies = Append(gm.memory.allies, "Fenrix")
            /\ Kept({"name", "health", "inventory", "visited_places"})
      /\ Len(calls') = 3 =>
            /\ gm'.memory.visited_places = Append(gm.memory.visited_places, "Forest")
            /\ gm'.memory.inventory = Append(gm.memory.inventory, "Map Scrap")
            /\ Kept({"name", "health", "allies"})
      /\ Len(calls') = 4 =>
            /\ gm.memory.health = 100
            /\ gm'.memory.health = 90
            /\ Kept({"name", "inventory", "allies", "visited_places"}) ]_vars

\* The 4th call, carrying the short utterance, has run scene_4 on the
\* memory the first three calls built.
C7_Witness ==
  /\ Len(calls) = 4
  /\ calls[4] = ShortUtterance
  /\ step = "scene_4"
  /\ Memory.health = 90
  /\ Memory.name = "Arin"
  /\ Memory.visited_places = <<"Tavern", "Forest">>
  /\ Memory.inventory = <<"Map Scrap">>
  /\ Memory.allies = <<"Fenrix">>

\* C8: every narration run returns, for every step and every utterance,
\* ends with the closing prompt "What do you do?".
C8_ClosingPrompt ==
  Called => (outcome = "return" /\ EndsWith(scene, ClosingPrompt))

\* generic_scene has interpolated the long utterance.
C8_Witness ==
  /\ step = "generic_scene"
  /\ calls[Len(calls)] = LongUtterance
  /\ scene = GenericPrefix \o LongUtterance \o GenericSuffix

OtherSteps == {"scene_1", "scene_2", "scene_3", "scene_4", "generic_scene"}

\* C9 as stated: the narration of a call that selects final_scene does not
\* end with "What do you do?", while the narrations of the other five steps
\* do.
C9_FinalHasNoPrompt ==
  /\ step = "final_scene" => ~EndsWith(scene, "What do you do?")
  /\ step \in OtherSteps => EndsWith(scene, "What do you do?")

\* C9 amended: the narration of a call that selects final_scene ends with
\* "What do you do?" too, like the narrations of the other five steps.
C9_FinalHasPrompt ==
  /\ step = "final_scene" => EndsWith(scene, "What do you do?")
  /\ step \in OtherSteps => EndsWith(scene, "What do you do?")

\* The first call that selects final_scene has returned its narration.
C9_Witness ==
  /\ step = "final_scene"
  /\ Len(calls) = gm.max_turns
  /\ EndsWith(scene, "A new quest begins. What do you do?")

\* C10: run has no error outcome: in every reachable state and for every
\* utterance, the empty one and the absence of any message included, the
\* call completes, selects exactly one defined step and returns a narration.
C10_NoErrorOutcome ==
  Called =>
    /\ outcome = "return"
    /\ step \in SceneNames
    /\ Len(scene) > 0
    /\ scene # "UnboundLocalError"
    /\ gm.turn = Len(calls)

\* A call made with no message at all has selected final_scene, in a
\* session that never received an utterance.
C10_Witness ==
  /\ ctx = <<>>
  /\ step = "final_scene"
  /\ outcome = "return"
  /\ Memory.past_actions = <<>>

\* C12: a call that selects generic_scene or final_scene leaves name,
\* health, inventory, allies and visited_places unchanged; it changes only
\* turn and, for a non-empty utterance, past_actions by one entry.  In a
\* default session the five fields are frozen from the 5th call on.
C12_FrameOfLateSteps ==
  [][ /\ step' \in {"generic_scene", "final_scene"} =>
            /\ Kept({"name", "health", "inventory", "allies", "visited_places"})
            /\ gm'.turn = gm.turn + 1
            /\ gm'.max_turns = gm.max_turns
            /\ gm'.memory.past_actions =
                 IF calls'[Len(calls')] = ""
                   THEN gm.memory.past_actions
                   ELSE Append(gm.memory.past_actions,
                               gm'.memory.past_actions[Len(gm'.memory.past_actions)])
      /\ Len(calls') >= 5 =>
            /\ step' \in {"generic_scene", "final_scene"}
            /\ Kept({"name", "health", "inventory", "allies", "visited_places"}) ]_vars

\* A call with a non-empty utterance has selected final_scene after a call
\* that had selected it already.
C12_Witness ==
  /\ Len(calls) = 11
  /\ calls[11] = LongUtterance
  /\ step = "final_scene"
  /\ Memory.visited_places = <<"Tavern", "Forest">>
  /\ Memory.health = 90

\* C13: in a default session health is 100 in every state with turn < 4
\* and 90 in every state with turn >= 4, whatever the utterances; scene_4
\* runs once, so health never goes below 90.
C13_HealthValues ==
  /\ gm.turn < 4 => Memory.health = 100
  /\ gm.turn >= 4 => Memory.health = 90
  /\ Memory.health >= 90

\* Seven calls after the wolf encounter health is still 90.
C13_Witness ==
  /\ gm.turn = 11
  /\ Memory.health = 90
  /\ calls[4] = ShortUtterance

\* The session and the last result after n calls that carried no message.
RECURSIVE SilentSession(_, _)
SilentSession(self, n) ==
  IF n = 0
    THEN [self |-> self, step |-> "none", ret |-> ""]
    ELSE LET r == run(SilentSession(self, n - 1).self, <<>>)
         IN  [self |-> r.self, step |-> r.step, ret |-> r.ret]

\* The narrative state: everything but past_actions and the narration text.
Narrative(self, st) ==
  << self.turn, st, self.memory.name, self.memory.health,
     self.memory.inventory, self.memory.allies, self.memory.visited_places >>

\* C14: the utterances do not influence the narrative state: after any
\* calls the session has the turn, step, health, inventory, allies and
\* visited_places of a session that received as many calls without any
\* utterance (so any two sessions of equal length agree on them); only
\* past_actions and the text of generic_scene narrations can differ.
C14_UtteranceIndependence ==
  LET silent == SilentSession(VoiceGM(gm.max_turns), Len(calls))
  IN  /\ Narrative(gm, step) = Narrative(silent.self, silent.step)
      /\ step # "generic_scene" => scene = silent.ret

\* A session whose calls 2, 3 and 4 carried utterances, one of them the
\* words "I run" at the wolf encounter.
C14_Witness ==
  /\ Len(calls) = 6
  /\ calls[2] = LongUtterance
  /\ calls[3] = ShortUtterance
  /\ calls[4] = "I run"
  /\ step = "generic_scene"

\* C17: generic_scene puts the whole utterance, unchanged, between its
\* fixed prefix and suffix, for the empty utterance and for one longer than
\* 80 characters too, while the past_actions entry of the same call holds
\* only the first 80 characters.
C17_GenericInterpolation ==
  step = "generic_scene" =>
    LET u == calls[Len(calls)]
    IN  /\ scene = "The world reacts to your action: " \o u
                     \o ". You see the path ahead glowing with stars. What do you do?"
        /\ Len(scene) = 33 + Len(u) + 60
        /\ u # "" =>
              LET e == Memory.past_actions[Len(Memory.past_actions)]
              IN  /\ IsExcerpt(e, u, 80)
                  /\ Len(e) <= 80

\* generic_scene has returned the 81-character utterance whole while
\* past_actions kept 80 characters of it.
C17_Witness ==
  /\ step = "generic_scene"
  /\ calls[Len(calls)] = LongUtterance
  /\ Len(scene) = 33 + 81 + 60
  /\ Len(Memory.past_actions[Len(Memory.past_actions)]) = 80

\* Decimal numerals of the turns a session goes through.
Numeral(k) ==
  CASE k = 1 -> "1" [] k = 2 -> "2" [] k = 3 -> "3" [] k = 4 -> "4"
    [] k = 5 -> "5" [] k = 6 -> "6" [] k = 7 -> "7" [] k = 8 -> "8"
    [] k = 9 -> "9" [] k = 10 -> "10" [] k = 11 -> "11" [] k = 12 -> "12"
    [] k = 13 -> "13" [] k = 14 -> "14" [] k = 15 -> "15"

\* The record starts with the turn label for turn k.
HasTurnLabel(record, k) ==
  LET label == "GM Turn " \o Numeral(k) \o ": "
  IN  /\ Len(record.message) > Len(label)
      /\ SubSeq(record.message, 1, Len(label)) = label

\* C18: every call of run emits exactly one log record, carrying the
\* post-increment turn and the narration the call returns; after N calls
\* the log holds N records whose turn numbers are 1..N in order.
C18_OneRecordPerCall ==
  /\ [](/\ Len(log) = Len(calls)
        /\ \A i \in 1..Len(log) : HasTurnLabel(log[i], i))
  /\ [][ log' = Append(log,
                       [ levelname |-> "INFO",
                         message   |-> "GM Turn " \o Numeral(gm'.turn) \o ": "
                                         \o scene' ]) ]_vars

\* The 10th record carries the two-digit turn and the final narration.
C18_Witness ==
  /\ Len(log) = 10
  /\ log[10].message = "GM Turn 10: " \o FinalText
  /\ HasTurnLabel(log[1], 1)

\* C15: if run keeps being called, every session, for every max_turns >= 1,
\* eventually has a call that returns the final narration, and no call whose
\* post-increment turn is below max_turns returns it (with max_turns = 10,
\* calls 1..9 never do).
C15_Progress ==
  /\ <>(step = "final_scene" /\ scene = FinalText)
  /\ [](Called /\ gm.turn < gm.max_turns => step # "final_scene")

\* A session configured with max_turns = 6 has reached its first final
\* narration, on its 6th call.
C15_Witness ==
  /\ gm.max_turns = 6
  /\ Len(calls) = 6
  /\ step = "final_scene"
  /\ scene = FinalText

\* A fresh default session advanced alone by calls carrying utterances us.
RECURSIVE Alone(_)
Alone(us) ==
  IF us = <<>>
    THEN [self |-> VoiceGM(10), ret |-> ""]
    ELSE LET u == us[Len(us)]
             r == run(Alone(SubSeq(us, 1, Len(us) - 1)).self,
                      IF u = "" THEN <<>> ELSE <<Message(u)>>)
         IN  [self |-> r.self, ret |-> r.ret]

\* C11: two sessions advanced in any interleaving of their calls each have
\* the turn, the memory and the narration they would have had their calls
\* run alone, and a call on one session leaves the turn and every field of
\* the memory of the other, its lists included, unchanged.
C11_SessionIsolation ==
  /\ [](/\ gm = Alone(calls).self
        /\ scene = Alone(calls).ret
        /\ peer.gm = Alone(peer.calls).self
        /\ peer.scene = Alone(peer.calls).ret)
  /\ [][ /\ calls' # calls => peer' = peer
         /\ peer'.calls # peer.calls =>
               /\ gm' = gm
               /\ scene' = scene ]_vars

\* Both sessions have been advanced, to different turns and with different
\* utterances, and each holds only what its own calls produced.
C11_Witness ==
  /\ Len(calls) = 2
  /\ Len(peer.calls) = 3
  /\ calls[2] = LongUtterance
  /\ peer.calls[1] = ShortUtterance
  /\ gm.memory.visited_places = <<"Tavern">>
  /\ gm.memory.allies = <<"Fenrix">>
  /\ Len(gm.memory.past_actions) = 1
  /\ peer.gm.memory.visited_places = <<"Tavern", "Forest">>
  /\ peer.gm.memory.past_actions[1] = ShortUtterance
  /\ Len(log) = 5

Finished == {i \in 1..Len(tasks) : tasks[i].pc = "done"}

\* C16: a turn is one atomic transition.  Invocations of run scheduled
\* concurrently on one session do not interleave inside the body: the
\* session is what running the finished invocations one after the other, in
\* the order they finished, gives; the invocations get distinct consecutive
\* turns (no lost increment), and no numbered scene's mutation is applied
\* twice.
C16_AtomicTurn ==
  /\ \A i \in 1..Len(tasks) : tasks[i].pc \in {"created", "done"}
  /\ gm = Alone(calls).self
  /\ Len(calls) = Cardinality(Finished)
  /\ {tasks[i].turn : i \in Finished} = 1..Cardinality(Finished)
  /\ \A i, j \in Finished : i # j => tasks[i].turn # tasks[j].turn
  /\ Len(Memory.visited_places) <= 2
  /\ Len(Memory.allies) <= 1
  /\ Len(Memory.inventory) <= 1
  /\ Memory.health >= 90

\* Two invocations were created before either ran, and the one created
\* second ran first: it got turn 1 and the other turn 2.
C16_Witness ==
  /\ Len(tasks) = 2
  /\ tasks[1].pc = "done"
  /\ tasks[2].pc = "done"
  /\ tasks[1].u = ShortUtterance
  /\ tasks[2].u = LongUtterance
  /\ tasks[2].turn = 1
  /\ tasks[1].turn = 2
  /\ calls = <<LongUtterance, ShortUtterance>>
  /\ step = "scene_2"

====
